---------------------------- MODULE Spec2Model ----------------------------
(***************************************************************************)
(* A model of src/agent.py, the Sweden Startup Funding Agent (v5): the     *)
(* relevance filters, the funding facts, the company-name extraction, the  *)
(* cluster key, the clustering and the run of main().                      *)
(*                                                                         *)
(* Text is modelled character by character: a Python str is a TLA+ string, *)
(* read with Len, SubSeq and \o.  The module is ASCII, so five characters  *)
(* of the program's alphabet are written with a stand-in that the program  *)
(* treats the same way (none is a word character, none is white space,     *)
(* none has a case):                                                       *)
(*     RSQUO  "@"  U+2019 RIGHT SINGLE QUOTATION MARK                      *)
(*     LSQUO  "^"  U+2018 LEFT SINGLE QUOTATION MARK                       *)
(*     ENDASH "="  U+2013 EN DASH                                          *)
(*     EURO   "~"  U+20AC EURO SIGN                                        *)
(*     POUND  "#"  U+00A3 POUND SIGN                                       *)
(* The only white space of the modelled alphabet is the space.             *)
(*                                                                         *)
(* A regular expression of the source is a value (Lit, Cls, Seq, Alt, ...) *)
(* and Ends computes, for a set of start offsets, the set of offsets at    *)
(* which a match can end: re.search finds a match exactly when that set is *)
(* not empty.                                                              *)
(***************************************************************************)
EXTENDS Integers, Sequences, FiniteSets, TLC

VARIABLES
    pc,          \* position of the run in main()
    web,         \* what each source would return this run (the environment)
    src,         \* number of sources main() has attempted so far
    attempts,    \* per source, how many times its fetch was called
    failed,      \* the sources whose fetch raised (caught inside the fetcher)
    raw,         \* main: raw
    filtered,    \* main: filtered
    clustered,   \* main: clustered
    final,       \* main: final
    SWEDEN_KEYWORDS,            \* the module-level keyword lists
    FUNDING_KEYWORDS,
    EXCLUDE_CONTENT_KEYWORDS,
    title,       \* extract_company_name: its argument
    company,     \* ... and its result
    key          \* normalize_for_cluster: its last result

vars == <<pc, web, src, attempts, failed, raw, filtered, clustered, final,
          SWEDEN_KEYWORDS, FUNDING_KEYWORDS, EXCLUDE_CONTENT_KEYWORDS,
          title, company, key>>

---------------------------------------------------------------------------
(* Characters and strings                                                  *)

RSQUO == "@"
LSQUO == "^"
ENDASH == "="
EURO == "~"

UPPER == "ABCDEFGHIJKLMNOPQRSTUVWXYZ"
LOWER == "abcdefghijklmnopqrstuvwxyz"
DIGITS == "0123456789"

CharsOf(s) == {SubSeq(s, i, i) : i \in 1..Len(s)}

UpperChars == CharsOf(UPPER)
LowerChars == CharsOf(LOWER)
DigitChars == CharsOf(DIGITS)

LowerOf == [c \in UpperChars |->
              LET i == CHOOSE j \in 1..26 : SubSeq(UPPER, j, j) = c
              IN  SubSeq(LOWER, i, i)]

\* the character after offset p of s (offsets count the characters consumed)
At(s, p) == SubSeq(s, p + 1, p + 1)

IsSpace(c) == c = " "
IsDigit(c) == c \in DigitChars
IsWordChar(c) == c \in UpperChars \cup LowerChars \cup DigitChars \cup {"_"}
isupper(c) == c \in UpperChars

RECURSIVE MapChars(_, _, _)
MapChars(f, s, i) ==
    IF i > Len(s) THEN ""
    ELSE LET c == SubSeq(s, i, i)
         IN  (IF c \in DOMAIN f THEN f[c] ELSE c) \o MapChars(f, s, i + 1)

\* str.lower()
lower(s) == MapChars(LowerOf, s, 1)

UpperOf == [c \in LowerChars |->
              LET i == CHOOSE j \in 1..26 : SubSeq(LOWER, j, j) = c
              IN  SubSeq(UPPER, i, i)]

\* str.upper()
upper(s) == MapChars(UpperOf, s, 1)

\* str.title(): a letter is upper case after a character that is not a letter,
\* lower case after a letter
RECURSIVE TitleFrom(_, _)
TitleFrom(s, i) ==
    IF i > Len(s) THEN ""
    ELSE LET c == SubSeq(s, i, i)
             afterLetter == i > 1 /\ SubSeq(s, i - 1, i - 1) \in UpperChars \cup LowerChars
         IN  (IF afterLetter THEN lower(c) ELSE upper(c)) \o TitleFrom(s, i + 1)

titlecase(s) == TitleFrom(s, 1)

\* s[:n]
Prefix(s, n) == SubSeq(s, 1, IF n < Len(s) THEN n ELSE Len(s))

\* s[n:]
Suffix(s, n) == SubSeq(s, n + 1, Len(s))

\* kw in text
Contains(text, kw) ==
    \E i \in 1..(Len(text) - Len(kw) + 1) : SubSeq(text, i, i + Len(kw) - 1) = kw

\* any(kw in text for kw in kws)
ContainsAny(text, kws) == \E kw \in kws : Contains(text, kw)

\* the element of a one-element set: names a value that is computed once
Only(S) == CHOOSE x \in S : TRUE

Max(S) == CHOOSE x \in S : \A y \in S : y <= x
Min(S) == CHOOSE x \in S : \A y \in S : x <= y

\* str.strip(chars): the characters of the set cs removed from both ends
StripSet(s, cs) ==
    LET keep == {i \in 1..Len(s) : SubSeq(s, i, i) \notin cs}
    IN  IF keep = {} THEN "" ELSE SubSeq(s, Min(keep), Max(keep))

\* str.strip()
strip(s) == StripSet(s, {" "})

\* str.split(): the maximal runs of characters that are not white space
RECURSIVE SplitFrom(_, _)
SplitFrom(s, i) ==
    LET starts == {j \in i..Len(s) : ~IsSpace(SubSeq(s, j, j))}
    IN  IF starts = {} THEN <<>>
        ELSE LET b == Min(starts)
                 stops == {j \in b..Len(s) : IsSpace(SubSeq(s, j, j))}
                 e == IF stops = {} THEN Len(s) + 1 ELSE Min(stops)
             IN  <<SubSeq(s, b, e - 1)>> \o SplitFrom(s, e)

split(s) == SplitFrom(s, 1)

\* " ".join(ws)
RECURSIVE join(_)
join(ws) ==
    IF ws = <<>> THEN ""
    ELSE IF Len(ws) = 1 THEN ws[1]
    ELSE ws[1] \o " " \o join(Tail(ws))

\* ws[-2:]
LastTwo(ws) == IF Len(ws) <= 2 THEN ws ELSE SubSeq(ws, Len(ws) - 1, Len(ws))

\* [w for w in ws if w and w[0].isupper()]
RECURSIVE CapWords(_)
CapWords(ws) ==
    IF ws = <<>> THEN <<>>
    ELSE (IF ws[1] # "" /\ isupper(SubSeq(ws[1], 1, 1)) THEN <<ws[1]>> ELSE <<>>)
         \o CapWords(Tail(ws))

---------------------------------------------------------------------------
(* Regular expressions                                                     *)

Lit(s) == [t |-> "lit", s |-> s]
Cls(c) == [t |-> "cls", c |-> c]
Seq2(rs) == [t |-> "seq", rs |-> rs]
Alt(rs) == [t |-> "alt", rs |-> rs]
Opt(r) == [t |-> "opt", r |-> r]
Plus(r) == [t |-> "plus", r |-> r]
Upto(r, n) == [t |-> "upto", r |-> r, n |-> n]
Bol == [t |-> "bol"]
Wb == [t |-> "wb"]

\* the character classes of the source's patterns
InClass(c, ch) ==
    CASE c = "s" -> IsSpace(ch)                      \* \s
      [] c = "d" -> IsDigit(ch)                      \* \d
      [] c = "w-" -> IsWordChar(ch) \/ ch = "-"      \* [\w\-]
      [] c = "-s" -> IsSpace(ch) \/ ch = "-"         \* [\-\s]
      [] c = "a-e" -> ch \in {"a", "b", "c", "d", "e"}  \* [a-e]
      [] c = "." -> TRUE                             \* . (no line breaks in the alphabet)

\* \b at offset p: a word character on exactly one side
AtBoundary(s, p) ==
    LET before == p > 0 /\ IsWordChar(At(s, p - 1))
        after == p < Len(s) /\ IsWordChar(At(s, p))
    IN  before # after

RECURSIVE Ends(_, _, _)
RECURSIVE EndsSeq(_, _, _, _)
RECURSIVE EndsPlus(_, _, _, _)
RECURSIVE EndsUpto(_, _, _, _, _)

\* the offsets where a match of r that starts at an offset of P can end
Ends(r, s, P) ==
    IF P = {} THEN {}
    ELSE CASE r.t = "lit" ->
                {p + Len(r.s) : p \in {q \in P : /\ q + Len(r.s) <= Len(s)
                                                   /\ SubSeq(s, q + 1, q + Len(r.s)) = r.s}}
           [] r.t = "cls" ->
                {p + 1 : p \in {q \in P : q < Len(s) /\ InClass(r.c, At(s, q))}}
           [] r.t = "seq" -> EndsSeq(r.rs, 1, s, P)
           [] r.t = "alt" -> UNION {Ends(r.rs[i], s, P) : i \in 1..Len(r.rs)}
           [] r.t = "opt" -> P \cup Ends(r.r, s, P)
           [] r.t = "plus" -> EndsPlus(r.r, s, Ends(r.r, s, P), {})
           [] r.t = "upto" -> EndsUpto(r.r, r.n, s, P, P)
           [] r.t = "bol" -> P \cap {0}
           [] r.t = "wb" -> {p \in P : AtBoundary(s, p)}

EndsSeq(rs, i, s, P) ==
    IF i > Len(rs) THEN P ELSE EndsSeq(rs, i + 1, s, Ends(rs[i], s, P))

\* one or more: frontier holds the ends not yet extended, acc those that are
EndsPlus(r, s, frontier, acc) ==
    IF frontier \subseteq acc THEN acc
    ELSE EndsPlus(r, s, Ends(r, s, frontier \ acc), acc \cup frontier)

\* {0,n}
EndsUpto(r, n, s, frontier, acc) ==
    IF n = 0 \/ frontier = {} THEN acc
    ELSE LET nxt == Ends(r, s, frontier)
         IN  EndsUpto(r, n - 1, s, nxt \ acc, acc \cup nxt)

S1 == Plus(Cls("s"))                       \* \s+
OptS(w) == Seq2(<<Lit(w), Opt(Lit("s"))>>)  \* ws?
Words(ws) == Alt([i \in 1..Len(ws) |-> Lit(ws[i])])

\* re.search(r, s) finds a match
Search(r, s) == Ends(r, s, 0..Len(s)) # {}

\* re.search(r, s).start(): the leftmost offset a match starts at, -1 for no match
SearchStart(r, s) ==
    LET starts == {p \in 0..Len(s) : Ends(r, s, {p}) # {}}
    IN  IF starts = {} THEN -1 ELSE Min(starts)

---------------------------------------------------------------------------
(* Configuration                                                           *)

MAX_AGE_DAYS == 90

\* the values the module-level lists are created with
FundingKeywords ==
    {"raises", "raised", "funding", "investment", "series a", "series b",
     "series c", "series d", "seed", "pre-seed", "venture", "capital",
     "million", "secures", "secured", "closes", "closed", "backed",
     "lands", "receives", "grant", "valuation", "round", "emerges from stealth",
     "powers up with", "bags", "attracts", "nets"}

SwedenKeywords ==
    {"sweden", "swedish", "stockholm", "gothenburg", "goteborg", "malmo",
     "sverige", "svensk", "linkoping", "uppsala", "vasteras", "orebro",
     "helsingborg", "lund", "umea", "solleftea", "scandinavia"}

ExcludeContentKeywords ==
    {"plumbing", "carpentry", "dental clinic", "dentist", "restaurant chain",
     "hair salon", "barbershop", "physical therapy", "massage", "catering company",
     "colocation", "hyperscaler", "megawatt", " mw ", "data center campus",
     "construction permit", "grid connection"}

BAD_TITLE_PATTERNS == <<
    Seq2(<<Bol, Lit("top"), S1, Plus(Cls("d"))>>),
    Seq2(<<Plus(Cls("d")), S1, Alt(<<OptS("startup"), Lit("companies")>>), S1,
           Words(<<"to", "you", "that">>)>>),
    Lit("venture capital firms"),
    Seq2(<<Wb, Lit("vc"), S1, Lit("firms"), Wb>>),
    Seq2(<<OptS("slashe"), S1, Lit("valuation")>>),
    Seq2(<<OptS("cut"), S1, Lit("valuation")>>),
    Seq2(<<OptS("write"), S1, Lit("down")>>),
    Seq2(<<OptS("triple"), S1, Lit("valuation")>>),
    Seq2(<<OptS("double"), S1, Lit("valuation")>>),
    Seq2(<<OptS("quadruple"), S1, Lit("valuation")>>),
    Seq2(<<OptS("reache"), S1, Lit("valuation"), S1, Lit("of")>>),
    Seq2(<<OptS("hit"), S1, Lit("valuation"), S1, Lit("of")>>),
    Seq2(<<Lit("valued"), S1, Lit("at"), S1, Lit("$"), Cls("d")>>),
    Seq2(<<Opt(Seq2(<<Lit("micro"), S1>>)), Lit("fund"), S1, Lit("to"), S1, Lit("back")>>),
    Seq2(<<OptS("launche"), S1, Upto(Cls("."), 30), Wb, Lit("fund"), Wb>>),
    Seq2(<<OptS("raise"), S1, Upto(Cls("."), 20), Wb,
           Words(<<"third", "second", "fourth", "new">>), S1, Lit("fund"), Wb>>),
    Seq2(<<Wb, Lit("investor"), Wb, Upto(Cls("."), 30), Wb, OptS("raise"), Wb>>),
    Seq2(<<Lit("new"), S1, Opt(Seq2(<<Lit("micro"), S1>>)), Lit("fund")>>),
    Seq2(<<Lit("nordic"), Cls("-s"), Lit("focused"), S1, Lit("fund")>>),
    Seq2(<<Words(<<"annual", "weekly", "monthly">>), S1,
           Words(<<"roundup", "digest", "report">>)>>),
    Seq2(<<OptS("startup"), S1,
           Alt(<<Seq2(<<Lit("to"), S1, Lit("watch")>>),
                 Seq2(<<Lit("you"), S1, Lit("should"), S1, Lit("know")>>)>>)>>),
    Seq2(<<Bol, Words(<<"swedish", "nordic">>), S1,
           Opt(Seq2(<<Lit("ai"), Cls("-s")>>)), Lit("native"), S1, OptS("startup")>>)
>>

\* SOURCE_PRIORITY.get(source, 99)
SOURCE_PRIORITY(source) ==
    CASE source = "EU-Startups" -> 0
      [] source = "ArcticStartup" -> 1
      [] source = "Silicon Canals" -> 2
      [] source = "Sifted" -> 3
      [] source = "Tech.eu" -> 4
      [] source = "TechCrunch" -> 5
      [] OTHER -> 99

---------------------------------------------------------------------------
(* Date helpers.  A published_parsed is <<>> (None), <<d>> (a time, as the *)
(* day it falls on) or a longer tuple (a struct_time datetime() refuses).  *)
(* NOW is the day of the run; the clock does not advance during a run.     *)

NoDate == <<>>
NOW == 1000

to_datetime(parsed_time) ==
    IF parsed_time = NoDate THEN NoDate
    ELSE IF Len(parsed_time) = 1 THEN parsed_time
    ELSE NoDate

age_days(pub) == IF pub = NoDate THEN 999 ELSE NOW - pub[1]

---------------------------------------------------------------------------
(* Filters                                                                 *)

is_bad_title(t) ==
    LET tl == lower(t)
    IN  \E i \in 1..Len(BAD_TITLE_PATTERNS) : Search(BAD_TITLE_PATTERNS[i], tl)

NorwayMarkers == {"oslo-based", "oslo based", "norwegian startup", "norway-based"}

\* a mutant: the home-region markers are not consulted
is_norway_only_IgnoresHome(article) ==
    LET text == lower(article.title \o " " \o article.summary)
    IN  ContainsAny(text, NorwayMarkers)

is_norway_only(article) ==
    LET text == lower(article.title \o " " \o article.summary)
    IN  ContainsAny(text, NorwayMarkers) /\ ~ContainsAny(text, SWEDEN_KEYWORDS)

\* a mutant: the exclusion stage is missing
passes_filters_NoExclusion(article) ==
    LET text == lower(article.title \o " " \o article.summary)
        pub == to_datetime(article.published)
    IN  IF age_days(pub) > MAX_AGE_DAYS THEN FALSE
        ELSE IF ~ContainsAny(text, SWEDEN_KEYWORDS) THEN FALSE
        ELSE IF ~ContainsAny(text, FUNDING_KEYWORDS) THEN FALSE
        ELSE IF is_bad_title(article.title) THEN FALSE
        ELSE IF is_norway_only(article) THEN FALSE
        ELSE TRUE

\* a mutant: the home-region test has lost its "not"
passes_filters_HomeInverted(article) ==
    LET text == lower(article.title \o " " \o article.summary)
        pub == to_datetime(article.published)
    IN  IF age_days(pub) > MAX_AGE_DAYS THEN FALSE
        ELSE IF ContainsAny(text, SWEDEN_KEYWORDS) THEN FALSE
        ELSE IF ~ContainsAny(text, FUNDING_KEYWORDS) THEN FALSE
        ELSE IF ContainsAny(text, EXCLUDE_CONTENT_KEYWORDS) THEN FALSE
        ELSE IF is_bad_title(article.title) THEN FALSE
        ELSE IF is_norway_only(article) THEN FALSE
        ELSE TRUE

passes_filters(article) ==
    LET text == lower(article.title \o " " \o article.summary)
        pub == to_datetime(article.published)
    IN  IF age_days(pub) > MAX_AGE_DAYS THEN FALSE
        ELSE IF ~ContainsAny(text, SWEDEN_KEYWORDS) THEN FALSE
        ELSE IF ~ContainsAny(text, FUNDING_KEYWORDS) THEN FALSE
        ELSE IF ContainsAny(text, EXCLUDE_CONTENT_KEYWORDS) THEN FALSE
        ELSE IF is_bad_title(article.title) THEN FALSE
        ELSE IF is_norway_only(article) THEN FALSE
        ELSE TRUE

---------------------------------------------------------------------------
(* Funding extraction                                                      *)

POUND == "#"     \* U+00A3 POUND SIGN

\* [€£\$]
CurrencySigns == {EURO, POUND, "$"}

\* \s* from offset p (greedy): the first offset with no white space after it
SkipSpaces(s, p) ==
    Min({q \in p..Len(s) : q = Len(s) \/ ~IsSpace(At(s, q))})

\* \d* from offset p (greedy)
DigitsEnd(s, p) ==
    Min({q \in p..Len(s) : q = Len(s) \/ ~IsDigit(At(s, q))})

\* [\d]+(?:[.,]\d+)? from offset p (greedy): where it ends, -1 for no match.
\* What follows it in _AMOUNT_RE starts with white space or a letter, so no
\* shorter match of the number can make the pattern succeed.
NumberEnd(s, p) ==
    LET e == DigitsEnd(s, p)
    IN  IF e = p THEN -1
        ELSE IF e < Len(s) /\ At(s, e) \in {".", ","} /\ DigitsEnd(s, e + 1) > e + 1
             THEN DigitsEnd(s, e + 1)
             ELSE e

StartsAt(s, p, w) == p + Len(w) <= Len(s) /\ SubSeq(s, p + 1, p + Len(w)) = w

Unit(w, bounded) == [w |-> w, bounded |-> bounded]

\* (k|m|mn|million|bn|billion), in the order the pattern tries them
SymbolUnits ==
    <<Unit("k", FALSE), Unit("m", FALSE), Unit("mn", FALSE), Unit("million", FALSE),
      Unit("bn", FALSE), Unit("billion", FALSE)>>

\* (million|billion|m\b|bn\b|k\b)
WordUnits ==
    <<Unit("million", FALSE), Unit("billion", FALSE), Unit("m", TRUE),
      Unit("bn", TRUE), Unit("k", TRUE)>>

\* the first alternative of units that matches at offset p, "" when none does
FirstUnit(units, s, p) ==
    LET hits == {i \in 1..Len(units) :
                    /\ StartsAt(s, p, units[i].w)
                    /\ units[i].bounded => AtBoundary(s, p + Len(units[i].w))}
    IN  IF hits = {} THEN "" ELSE units[Min(hits)].w

NoAmount == [hit |-> FALSE, sym |-> "", num |-> "", unit |-> ""]

\* a match of _AMOUNT_RE that starts at offset p of s (s in lower case): the
\* symbol-first alternative, and the number-first one when that fails
AmountAt(s, p) ==
    IF p < Len(s) /\ At(s, p) \in CurrencySigns
    THEN LET b == SkipSpaces(s, p + 1)
             e == NumberEnd(s, b)
         IN  IF e = -1 THEN NoAmount
             ELSE [hit |-> TRUE, sym |-> At(s, p), num |-> SubSeq(s, b + 1, e),
                   unit |-> FirstUnit(SymbolUnits, s, SkipSpaces(s, e))]
    ELSE LET e == NumberEnd(s, p)
             unit == IF e = -1 THEN "" ELSE FirstUnit(WordUnits, s, SkipSpaces(s, e))
         IN  IF unit = "" THEN NoAmount
             ELSE [hit |-> TRUE, sym |-> "", num |-> SubSeq(s, p + 1, e), unit |-> unit]

\* _AMOUNT_RE.search(text): the leftmost match (re.IGNORECASE)
_AMOUNT_RE(text) ==
    Only({LET starts == {p \in 0..Len(s) : AmountAt(s, p).hit}
          IN  IF starts = {} THEN NoAmount ELSE AmountAt(s, Min(starts)) :
          s \in {lower(text)}})

\* the alternatives of _ROUND_RE's group, in the order the pattern tries them
_ROUND_RE == <<
    Seq2(<<Lit("pre"), Opt(Cls("-s")), Lit("seed")>>),
    Lit("seed"),
    Seq2(<<Lit("series"), S1, Cls("a-e")>>),
    Seq2(<<Lit("growth"), S1, Lit("round")>>),
    Seq2(<<Lit("bridge"), S1, Lit("round")>>),
    Lit("ipo"),
    Lit("crowdfunding")>>

NoRound == [hit |-> FALSE, alt |-> 0, start |-> 0, end |-> 0]

\* a match of \b(...)\b that starts at offset p of s: the first alternative that
\* matches between two word boundaries (each alternative has one end)
RoundAt(s, p) ==
    LET ends == [i \in 1..Len(_ROUND_RE) |-> Ends(Seq2(<<Wb, _ROUND_RE[i], Wb>>), s, {p})]
        hits == {i \in 1..Len(_ROUND_RE) : ends[i] # {}}
    IN  IF hits = {} THEN NoRound
        ELSE [hit |-> TRUE, alt |-> Min(hits), start |-> p, end |-> Max(ends[Min(hits)])]

\* _ROUND_RE.search(text): the leftmost match (re.IGNORECASE)
RoundSearch(text) ==
    Only({LET starts == {p \in 0..Len(s) : RoundAt(s, p).hit}
          IN  IF starts = {} THEN NoRound ELSE RoundAt(s, Min(starts)) :
          s \in {lower(text)}})

\* lines 279-286
RoundName(rm, raw0) ==
    \* the two re.sub: only a match of the alternative itself can hold the pattern
    LET raw1 == IF rm.alt = 3 THEN "Series " \o upper(SubSeq(raw0, Len(raw0), Len(raw0)))
                ELSE raw0
        raw2 == IF rm.alt = 1 THEN "Pre-Seed" ELSE raw1
    IN  IF lower(raw2) # "ipo" THEN titlecase(raw2) ELSE "IPO"

RoundOf(text) ==
    Only({IF ~rm.hit THEN ""
          ELSE Only({RoundName(rm, raw0) :
                     raw0 \in {strip(SubSeq(text, rm.start + 1, rm.end))}}) :
          rm \in {RoundSearch(text)}})

RECURSIVE StripLeadingZeros(_)
StripLeadingZeros(d) ==
    IF d # "" /\ SubSeq(d, 1, 1) = "0" THEN StripLeadingZeros(Tail(d)) ELSE d

RECURSIVE StripTrailingZeros(_)
StripTrailingZeros(d) ==
    IF d # "" /\ SubSeq(d, Len(d), Len(d)) = "0"
    THEN StripTrailingZeros(SubSeq(d, 1, Len(d) - 1)) ELSE d

DigitValue(c) == (CHOOSE i \in 1..10 : SubSeq(DIGITS, i, i) = c) - 1

RECURSIVE ToNat(_)
ToNat(d) == IF d = "" THEN 0 ELSE 10 * ToNat(SubSeq(d, 1, Len(d) - 1))
                                    + DigitValue(SubSeq(d, Len(d), Len(d)))

RECURSIVE ToDigits(_)
ToDigits(n) ==
    IF n < 10 THEN SubSeq(DIGITS, n + 1, n + 1)
    ELSE ToDigits(n \div 10) \o SubSeq(DIGITS, (n % 10) + 1, (n % 10) + 1)

RECURSIVE Zeros(_)
Zeros(n) == IF n <= 0 THEN "" ELSE "0" \o Zeros(n - 1)

\* float(num.replace(",", ".")): the value, kept as its decimal digits.  The
\* numerals of _AMOUNT_RE always parse; the model covers those of at most 15
\* digits, which a double holds exactly enough for what follows.
float(num) ==
    LET seps == {i \in 1..Len(num) : SubSeq(num, i, i) \in {".", ","}}
        cut == IF seps = {} THEN Len(num) + 1 ELSE Min(seps)
    IN  [int |-> StripLeadingZeros(SubSeq(num, 1, cut - 1)),
         frac |-> StripTrailingZeros(SubSeq(num, cut + 1, Len(num)))]

\* int(num): the fraction is dropped
int(x) == IF x.int = "" THEN "0" ELSE x.int

GPrecision == 6

\* f"{num:g}": six significant digits, trailing zeros removed, the exponent form
\* when the decimal exponent is below -4 or at least 6.  A value is rounded
\* half-to-even on its decimal digits; Python rounds the double, which differs
\* only for a non-integer numeral of more than six digits that ends in a tie.
FormatG(x) ==
    LET lead == Len(x.frac) - Len(StripLeadingZeros(x.frac))
        digits == IF x.int # "" THEN StripTrailingZeros(x.int \o x.frac)
                  ELSE StripLeadingZeros(x.frac)
        exp == IF x.int # "" THEN Len(x.int) - 1 ELSE -(lead + 1)
        head == ToNat(SubSeq(digits, 1, GPrecision))
        rest == SubSeq(digits, GPrecision + 1, Len(digits))
        next == DigitValue(SubSeq(rest, 1, 1))
        up == \/ next > 5
              \/ next = 5 /\ (Len(rest) > 1 \/ head % 2 = 1)
        carried == Len(digits) > GPrecision /\ up /\ ToDigits(head + 1) = "1" \o Zeros(GPrecision)
        d == IF Len(digits) <= GPrecision THEN digits
             ELSE IF carried THEN "1"
             ELSE StripTrailingZeros(ToDigits(IF up THEN head + 1 ELSE head))
        e == IF carried THEN exp + 1 ELSE exp
        abs == IF e < 0 THEN -e ELSE e
    IN  IF x.int = "" /\ x.frac = "" THEN "0"
        ELSE IF e >= GPrecision \/ e < -4
             THEN SubSeq(d, 1, 1) \o (IF Len(d) > 1 THEN "." \o Tail(d) ELSE "")
                  \o "e" \o (IF e < 0 THEN "-" ELSE "+")
                  \o (IF abs < 10 THEN "0" ELSE "") \o ToDigits(abs)
        ELSE IF e >= 0
             THEN LET padded == d \o Zeros(e + 1 - Len(d))
                      whole == SubSeq(padded, 1, e + 1)
                      part == SubSeq(padded, e + 2, Len(padded))
                  IN  whole \o (IF part = "" THEN "" ELSE "." \o part)
        ELSE "0." \o Zeros(abs - 1) \o d

\* lines 288-310
AmountString(am) ==
    LET sym == IF am.sym # "" THEN am.sym ELSE EURO
        num == float(am.num)
        unit == am.unit
    IN  IF unit \in {"bn", "billion"} THEN sym \o FormatG(num) \o "B"
        ELSE IF unit \in {"m", "mn", "million"} THEN sym \o FormatG(num) \o "M"
        ELSE IF unit = "k" THEN sym \o int(num) \o "K"
        ELSE sym \o FormatG(num)

AmountOf(text) ==
    Only({IF am.hit THEN AmountString(am) ELSE "" : am \in {_AMOUNT_RE(text)}})

extract_funding_info(t, summary) ==
    Only({[amount |-> AmountOf(text), round |-> RoundOf(text)] :
          text \in {t \o " " \o summary}})

---------------------------------------------------------------------------
(* Company name extraction                                                 *)

\* U+02BC, the third character line 324 replaces, is not in the modelled alphabet
ApostropheOf == [c \in {RSQUO, LSQUO} |-> "'"]

_normalise_apostrophes(s) == MapChars(ApostropheOf, s, 1)

SectorWords ==
    <<"ai", "ml", "data", "tech", "saas", "fintech", "deeptech", "biotech", "bio",
      "medtech", "nuclear", "cleantech", "healthtech", "quantum", "crypto", "gaming",
      "energy", "insurtech", "pet", "micro", "nano">>

\* the alternatives of _PREFIX_RE's group, in the order the pattern tries them
_PREFIX_RE == <<
    Seq2(<<Lit("sweden"), Opt(Lit("'")), Opt(Lit("s")), S1>>),
    Seq2(<<Lit("swedish"), S1>>),
    Seq2(<<Lit("stockholm"), Cls("-s"), Lit("based"), S1>>),
    Seq2(<<Lit("gothenburg"), Cls("-s"), Lit("based"), S1>>),
    Seq2(<<Lit("nordic"), S1>>),
    Seq2(<<Words(SectorWords), S1,
           Words(<<"startup", "company", "firm", "scaleup", "unicorn", "platform">>), S1>>),
    Seq2(<<Words(<<"startup", "company", "firm", "scaleup">>), S1>>),
    Seq2(<<Plus(Cls("w-")), Cls("-s"), Words(<<"based", "native", "first">>), S1>>)
>>

\* _DESC_RE's group: one descriptor and the white space after it
_DESC_RE == <<
    Seq2(<<Alt(<<Words(<<"ai", "ml", "data", "b2b", "b2c", "saas", "tech", "green",
                         "digital", "smart", "autonomous", "cloud", "api", "deep",
                         "advanced", "innovative", "leading">>),
                 Seq2(<<Lit("open"), Cls("-s"), Lit("source")>>),
                 Seq2(<<Lit("next"), Cls("-s"), Lit("gen")>>),
                 Words(<<"micro", "nano", "pet", "bio", "nuclear">>),
                 Seq2(<<Lit("prevention"), Cls("-s"), Lit("first")>>),
                 Words(<<"insurtech", "healthtech", "fintech", "proptech", "edtech",
                         "legaltech">>)>>),
           S1>>)
>>

_FUNDING_VERB_RE ==
    Seq2(<<S1,
           Alt(<<OptS("raise"), OptS("secure"), OptS("get"), OptS("receive"),
                 OptS("close"), OptS("land"), OptS("fetche"), OptS("announce"),
                 OptS("back"), Lit("backed"), OptS("complete"), OptS("confirm"),
                 OptS("bag"), OptS("attract"), OptS("net"),
                 Seq2(<<OptS("power"), S1, Lit("up"), S1, Lit("with")>>),
                 Seq2(<<OptS("emerge"), S1, Lit("from"), S1, Lit("stealth"), S1,
                        Lit("with")>>),
                 Seq2(<<OptS("extend"), S1,
                        Alt(<<Lit("funding"),
                              Seq2(<<Lit("its"), S1, Lit("funding")>>),
                              Lit("round")>>)>>),
                 Seq2(<<OptS("wrap"), S1, Lit("up")>>)>>)>>)

\* One pass of a repeated group at offset p: the first alternative that matches,
\* taken as far as it goes (its quantifiers are greedy); -1 when none matches.
GroupEnd(alts, s, p) ==
    LET hits == {i \in 1..Len(alts) : Ends(alts[i], s, {p}) # {}}
    IN  IF hits = {} THEN -1 ELSE Max(Ends(alts[Min(hits)], s, {p}))

\* ^(?:...)+ and ^(?:...)*: the group repeated from offset p until it fails
RECURSIVE LeadEnd(_, _, _)
LeadEnd(alts, s, p) ==
    LET e == GroupEnd(alts, s, p)
    IN  IF e = -1 THEN p ELSE LeadEnd(alts, s, e)

\* pattern.sub("", s) for the two anchored, case-insensitive patterns
SubLeading(alts, s) == Suffix(s, LeadEnd(alts, lower(s), 0))

\* the candidate after line 371: both strippings, each applied once
StripDescriptors(candidate) ==
    strip(SubLeading(_DESC_RE, strip(SubLeading(_PREFIX_RE, candidate))))

\* lines 373-377
KeepCapitalised(candidate) ==
    LET words == split(candidate)
        cap == CapWords(words)
    IN  IF Len(words) > 2
        THEN (IF cap # <<>> THEN join(LastTwo(cap)) ELSE join(LastTwo(words)))
        ELSE candidate

\* lines 365-368: the title up to its first funding verb, or its first 60 characters
CandidateOf(t) ==
    LET title_n == _normalise_apostrophes(t)
        start == SearchStart(_FUNDING_VERB_RE, lower(title_n))
    IN  IF start # -1 THEN strip(Prefix(title_n, start)) ELSE Prefix(title_n, 60)

extract_company_name(t) ==
    LET candidate0 == CandidateOf(t)
        candidate == StripSet(KeepCapitalised(StripDescriptors(candidate0)),
                              {" ", "-", ENDASH, ",", "."})
    IN  IF candidate # "" /\ Len(candidate) > 1 THEN candidate ELSE Prefix(t, 40)

\* re.sub(r"'s$", "", n)
DropPossessive(n) ==
    IF Len(n) >= 2 /\ SubSeq(n, Len(n) - 1, Len(n)) = "'s"
    THEN SubSeq(n, 1, Len(n) - 2) ELSE n

\* a mutant: the apostrophes of the name are not normalised (as before FIX 1)
normalize_for_cluster_RawApostrophes(name) ==
    LET n == StripDescriptors(name)
    IN  lower(StripSet(DropPossessive(n), {" ", "-", ENDASH, ",", ".", "'", "\""}))

\* a mutant: the key keeps the name's case
normalize_for_cluster_KeepsCase(name) ==
    LET n == StripDescriptors(_normalise_apostrophes(name))
    IN  StripSet(DropPossessive(n), {" ", "-", ENDASH, ",", ".", "'", "\""})

normalize_for_cluster(name) ==
    LET n == StripDescriptors(_normalise_apostrophes(name))
    IN  lower(StripSet(DropPossessive(n), {" ", "-", ENDASH, ",", ".", "'", "\""}))

---------------------------------------------------------------------------
(* Clustering                                                              *)

\* a list comprehension, computed once
List(f) == <<>> \o f

\* list.sort(key=...): items in the order of their keys, equal keys in the
\* order they had (the sort is stable)
StableSort(items, keys) ==
    LET n == Len(items)
        before == List([i \in 1..n |->
                          Cardinality({j \in 1..n : \/ keys[j] < keys[i]
                                                    \/ keys[j] = keys[i] /\ j < i})])
    IN  List([k \in 1..n |-> items[CHOOSE i \in 1..n : before[i] = k - 1]])

\* best = group[0].copy(); best["coverage"] = len(group)
Canonical(group) ==
    LET best == group[1]
    IN  [title |-> best.title, summary |-> best.summary, published |-> best.published,
         source |-> best.source, company |-> best.company, amount |-> best.amount,
         round |-> best.round, coverage |-> Len(group)]

\* a mutant: the group is not sorted by source priority
cluster_by_company_Unsorted(articles) ==
    LET n == Len(articles)
        indices == [i \in 1..n |-> i]
        keyOf == List([i \in 1..n |-> normalize_for_cluster(articles[i].company)])
        firsts == SelectSeq(indices, LAMBDA i : \A j \in 1..(i - 1) : keyOf[j] # keyOf[i])
    IN  List([k \in 1..Len(firsts) |->
            LET idx == SelectSeq(indices, LAMBDA j : keyOf[j] = keyOf[firsts[k]])
                group == List([m \in 1..Len(idx) |-> articles[idx[m]]])
            IN  Canonical(group)])

cluster_by_company(articles) ==
    LET n == Len(articles)
        indices == [i \in 1..n |-> i]
        keyOf == List([i \in 1..n |-> normalize_for_cluster(articles[i].company)])
        \* the dict's keys in insertion order, each as the index that inserted it
        firsts == SelectSeq(indices, LAMBDA i : \A j \in 1..(i - 1) : keyOf[j] # keyOf[i])
    IN  List([k \in 1..Len(firsts) |->
            LET idx == SelectSeq(indices, LAMBDA j : keyOf[j] = keyOf[firsts[k]])
                group == List([m \in 1..Len(idx) |-> articles[idx[m]]])
                prio == List([m \in 1..Len(idx) |-> SOURCE_PRIORITY(group[m].source)])
            IN  Canonical(StableSort(group, prio))])

---------------------------------------------------------------------------
(* Sources and the feeds they serve                                        *)

RSS_SOURCES == <<"EU-Startups", "ArcticStartup", "Silicon Canals", "Tech.eu", "Sifted">>

GOOGLE_NEWS_QUERIES ==
    <<"Sweden+startup+funding", "Swedish+startup+raises+million",
      "Stockholm+startup+investment+round", "Swedish+company+series+A+B+C+funding",
      "Sweden+startup+seed+investment", "Swedish+startup+secures+funding",
      "Nordic+startup+Sweden+raises">>

\* The run is modelled over the first MaxRss feeds and the first MaxQueries queries.
MaxRss == 2
MaxQueries == 2

NRss == IF MaxRss < Len(RSS_SOURCES) THEN MaxRss ELSE Len(RSS_SOURCES)
NQueries == IF MaxQueries < Len(GOOGLE_NEWS_QUERIES) THEN MaxQueries
            ELSE Len(GOOGLE_NEWS_QUERIES)

\* the sources in the order main() attempts them
Sources == SubSeq(RSS_SOURCES, 1, NRss) \o SubSeq(GOOGLE_NEWS_QUERIES, 1, NQueries)

\* a feed entry; source is the entry's own source title ("" when it has none)
Entry(t, summary, published, source) ==
    [title |-> t, summary |-> summary, published |-> published, source |-> source]

RSS_LIMIT == 30        \* feed.entries[:30]
GOOGLE_LIMIT == 20     \* feed.entries[:20]
DIGEST_LIMIT == 30     \* clustered[:30]

SeqPrefix(xs, n) == SubSeq(xs, 1, IF n < Len(xs) THEN n ELSE Len(xs))

\* a mutant: no except clause, what raises inside escapes to main()
fetch_rss_Uncaught(source_name, entries, fails) ==
    [escaped |-> fails, articles |-> <<>>]

\* fetch_rss(url, source_name).  fails says that something inside the try
\* block raises this time; the except clause then returns [] and nothing escapes
\* to the caller.  Every article carries the feed's name.
fetch_rss(source_name, entries, fails) ==
    LET es == SeqPrefix(entries, RSS_LIMIT)
    IN  [escaped |-> FALSE,
         articles |-> IF fails THEN <<>>
                      ELSE List([i \in 1..Len(es) |->
                                   Entry(strip(es[i].title), es[i].summary,
                                         es[i].published, source_name)])]

\* fetch_google_news(query): the same, an article carrying its entry's own source
fetch_google_news(query, entries, fails) ==
    LET es == SeqPrefix(entries, GOOGLE_LIMIT)
    IN  [escaped |-> FALSE,
         articles |-> IF fails THEN <<>>
                      ELSE List([i \in 1..Len(es) |->
                                   Entry(strip(es[i].title), es[i].summary,
                                         es[i].published,
                                         IF es[i].source = "" THEN "Google News"
                                         ELSE es[i].source)])]

---------------------------------------------------------------------------
(* The feeds of a run                                                      *)

NoFeeds == [id \in {Sources[i] : i \in 1..Len(Sources)} |-> <<>>]

\* a feed per source, the rest empty
Feeds(rss1, rss2, query1, query2) ==
    [id \in DOMAIN NoFeeds |->
        IF id = RSS_SOURCES[1] THEN rss1
        ELSE IF id = RSS_SOURCES[2] THEN rss2
        ELSE IF id = GOOGLE_NEWS_QUERIES[1] THEN query1
        ELSE IF id = GOOGLE_NEWS_QUERIES[2] THEN query2
        ELSE <<>>]

AcmeRaises == Entry("Swedish fintech startup Acme raises ~5M",
                    "The round was led by a venture firm.", <<NOW - 2>>, "")
AcmeSecures == Entry("Acme secures ~5M Series A",
                     "Stockholm-based Acme builds payment software.", <<NOW - 1>>, "Sifted")
Undated == Entry("Swedish startup Bolt raises seed round", "", NoDate, "")
Stale == Entry("Swedish startup Bolt raises seed round", "", <<NOW - 91>>, "")
OsloOnly == Entry("Oslo-based Fjord raises seed round", "", <<NOW - 5>>, "TechCrunch")
Padded == Entry("  Lassie bags $ 5 million ", "Swedish pet InsurTech.", <<NOW - 90>>, "")

\* entry number i of the large feeds: a company of its own (Aaq, Abq, ...),
\* ages spread over 0..95 days
NameOf(i) == SubSeq(UPPER, ((i - 1) \div 26) + 1, ((i - 1) \div 26) + 1)
             \o SubSeq(LOWER, ((i - 1) % 26) + 1, ((i - 1) % 26) + 1) \o "q"
Numbered(i) == Entry(NameOf(i) \o " raises seed", "Stockholm", <<NOW - ((i * 37) % 96)>>, "")

MaxFeed == 32      \* entries of the large RSS feed
LargeRss == List([i \in 1..MaxFeed |-> Numbered(i)])
LargeQuery == List([i \in 1..(GOOGLE_LIMIT + 2) |-> Numbered(40 + i)])

Worlds ==
    { NoFeeds,
      Feeds(<<AcmeRaises, Undated>>, <<Padded>>, <<AcmeSecures, OsloOnly>>, <<Stale>>),
      Feeds(LargeRss, <<Numbered(3), AcmeRaises>>, LargeQuery, <<AcmeSecures>>) }

---------------------------------------------------------------------------
(* main()                                                                  *)

Init ==
    /\ pc = "fetch"
    /\ web \in Worlds
    /\ src = 0
    /\ attempts = [id \in DOMAIN NoFeeds |-> 0]
    /\ failed = {}
    /\ raw = <<>>
    /\ filtered = <<>>
    /\ clustered = <<>>
    /\ final = <<>>
    /\ SWEDEN_KEYWORDS = SwedenKeywords
    /\ FUNDING_KEYWORDS = FundingKeywords
    /\ EXCLUDE_CONTENT_KEYWORDS = ExcludeContentKeywords
    /\ title = ""
    /\ company = ""
    /\ key = ""

config == <<SWEDEN_KEYWORDS, FUNDING_KEYWORDS, EXCLUDE_CONTENT_KEYWORDS>>
unit == <<title, company, key>>

\* lines 567-573: the next source is fetched; fails is the environment's choice
Fetch(fails) ==
    /\ pc = "fetch"
    /\ src < Len(Sources)
    /\ LET id == Sources[src + 1]
           got == IF src < NRss THEN fetch_rss(id, web[id], fails)
                  ELSE fetch_google_news(id, web[id], fails)
       IN  /\ attempts' = [attempts EXCEPT ![id] = @ + 1]
           /\ failed' = IF fails THEN failed \cup {id} ELSE failed
           /\ IF got.escaped
              THEN pc' = "aborted" /\ raw' = raw /\ src' = src
              ELSE /\ raw' = raw \o got.articles
                   /\ src' = src + 1
                   /\ pc' = IF src + 1 = Len(Sources) THEN "filter" ELSE "fetch"
    /\ UNCHANGED <<web, filtered, clustered, final, config, unit>>

FetchOk == Fetch(FALSE)
FetchFails == Fetch(TRUE)

\* line 577
Filter ==
    /\ pc = "filter"
    /\ filtered' = SelectSeq(raw, passes_filters)
    /\ pc' = "extract"
    /\ UNCHANGED <<web, src, attempts, failed, raw, clustered, final, config, unit>>

\* a["company"] = extract_company_name(a["title"]);
\* a["amount"], a["round"] = extract_funding_info(a["title"], a["summary"])
WithCompany(a) ==
    LET funding == extract_funding_info(a.title, a.summary)
    IN  [title |-> a.title, summary |-> a.summary, published |-> a.published,
         source |-> a.source, company |-> extract_company_name(a.title),
         amount |-> funding.amount, round |-> funding.round]

\* lines 580-584 (the LinkedIn link and the tags are not modelled)
Extract ==
    /\ pc = "extract"
    /\ filtered' = List([i \in 1..Len(filtered) |-> WithCompany(filtered[i])])
    /\ pc' = "cluster"
    /\ UNCHANGED <<web, src, attempts, failed, raw, clustered, final, config, unit>>

\* line 586
Cluster ==
    /\ pc = "cluster"
    /\ clustered' = cluster_by_company(filtered)
    /\ pc' = "rank"
    /\ UNCHANGED <<web, src, attempts, failed, raw, filtered, final, config, unit>>

AgeOf(a) == age_days(to_datetime(a.published))

\* a mutant: the sort puts the oldest first
Rank_OldestFirst ==
    /\ pc = "rank"
    /\ clustered' = StableSort(clustered,
                               List([i \in 1..Len(clustered) |-> 0 - AgeOf(clustered[i])]))
    /\ pc' = "truncate"
    /\ UNCHANGED <<web, src, attempts, failed, raw, filtered, final, config, unit>>

\* line 587
Rank ==
    /\ pc = "rank"
    /\ clustered' = StableSort(clustered,
                               List([i \in 1..Len(clustered) |-> AgeOf(clustered[i])]))
    /\ pc' = "truncate"
    /\ UNCHANGED <<web, src, attempts, failed, raw, filtered, final, config, unit>>

\* line 588
Truncate ==
    /\ pc = "truncate"
    /\ final' = SeqPrefix(clustered, DIGEST_LIMIT)
    /\ pc' = "handoff"
    /\ UNCHANGED <<web, src, attempts, failed, raw, filtered, clustered, config, unit>>

\* lines 592-593: final goes to build_html and send_email
HandOff ==
    /\ pc = "handoff"
    /\ pc' = "done"
    /\ UNCHANGED <<web, src, attempts, failed, raw, filtered, clustered, final, config, unit>>

Next ==
    \/ FetchOk
    \/ FetchFails
    \/ Filter
    \/ Extract
    \/ Cluster
    \/ Rank
    \/ Truncate
    \/ HandOff

Spec == Init /\ [][Next]_vars

---------------------------------------------------------------------------
(* Properties of the run                                                   *)

AfterExtract == {"cluster", "rank", "truncate", "handoff", "done"}
AfterCluster == {"rank", "truncate", "handoff", "done"}
AfterTruncate == {"handoff", "done"}

Indices(xs) == 1..Len(xs)
KeyOf(a) == normalize_for_cluster(a.company)

AcmeTitles == {"Swedish fintech startup Acme raises ~5M", "Acme secures ~5M Series A"}

\* the records of filtered that carry one of the two Acme titles
AcmeRecords == {i \in Indices(filtered) : filtered[i].title \in AcmeTitles}

BothAcmeTitles == {filtered[i].title : i \in AcmeRecords} = AcmeTitles

\* C3: the two Acme titles both give the company "Acme" and the cluster key
\* "acme"; once the records of both are clustered there is exactly one canonical
\* record with that key, and its coverage counts both (2 when each title came in
\* once).
C3_AcmeTitlesShareACluster ==
    /\ pc \in AfterExtract =>
          \A i \in AcmeRecords : KeyOf(filtered[i]) = "acme"
    /\ (pc \in AfterCluster /\ BothAcmeTitles) =>
          /\ Cardinality({k \in Indices(clustered) : KeyOf(clustered[k]) = "acme"}) = 1
          /\ \A k \in Indices(clustered) :
                KeyOf(clustered[k]) = "acme" =>
                   /\ clustered[k].coverage = Cardinality(AcmeRecords)
                   /\ clustered[k].coverage >= 2

C3_Witness ==
    /\ pc = "rank"
    /\ BothAcmeTitles
    /\ Cardinality(AcmeRecords) = 2
    /\ \E k \in Indices(clustered) : clustered[k].coverage = 2

Range(xs) == {xs[i] : i \in Indices(xs)}

IsSortedByAge(xs) == \A i, j \in Indices(xs) : i < j => AgeOf(xs[i]) <= AgeOf(xs[j])

Least(a, b) == IF a < b THEN a ELSE b

\* C9: what is handed to presentation is ordered by non-decreasing age, has at
\* most 30 entries, and is the min(30, n) freshest of the n canonical records of
\* this run: each entry is a canonical record, none twice, and no canonical
\* record left out is strictly fresher than one that is kept.
C9_DigestIsTheFreshest ==
    pc \in AfterTruncate =>
        LET canon == cluster_by_company(filtered)
            left == Range(canon) \ Range(final)
        IN  /\ IsSortedByAge(final)
            /\ Len(final) <= 30
            /\ Len(final) = Least(30, Len(canon))
            /\ Range(final) \subseteq Range(canon)
            /\ Cardinality(Range(final)) = Len(final)
            /\ \A c \in left : \A i \in Indices(final) : ~(AgeOf(c) < AgeOf(final[i]))

C9_Witness ==
    /\ pc = "handoff"
    /\ Len(cluster_by_company(filtered)) > 30
    /\ Len(final) = 30
    /\ \E i, j \in Indices(final) : AgeOf(final[i]) < AgeOf(final[j])

AllSources == {Sources[i] : i \in Indices(Sources)}

\* what a source contributes when its fetch does not fail: its first entries,
\* up to the fetcher's limit
Served(i) ==
    SeqPrefix(web[Sources[i]], IF i <= NRss THEN RSS_LIMIT ELSE GOOGLE_LIMIT)

RECURSIVE ServedTitles(_)
ServedTitles(i) ==
    IF i = 0 THEN <<>>
    ELSE ServedTitles(i - 1) \o
         (IF Sources[i] \in failed THEN <<>>
          ELSE [k \in Indices(Served(i)) |-> strip(Served(i)[k].title)])

\* C10: whichever sources fail, the run is not aborted (it is always at a
\* position of main() that has a next step, or done); each source is attempted
\* once (never twice); raw holds exactly
\* the entries of the sources that did not fail, in order, and nothing of a
\* failed one; and a run whose sources yield nothing hands off an empty list.
C10_FetchFailuresAreNotFatal ==
    /\ pc \in {"fetch", "filter", "extract", "cluster", "rank", "truncate", "handoff", "done"}
    /\ pc = "fetch" => src < Len(Sources)
    /\ \A id \in AllSources :
          /\ attempts[id] <= 1
          /\ id \in failed => attempts[id] = 1
    /\ \A i \in Indices(Sources) : attempts[Sources[i]] = (IF i <= src THEN 1 ELSE 0)
    /\ pc # "fetch" => src = Len(Sources)
    /\ [i \in Indices(raw) |-> raw[i].title] = ServedTitles(src)
    /\ (pc \in AfterTruncate /\ raw = <<>>) => final = <<>>

C10_Witness ==
    /\ pc = "handoff"
    /\ failed = AllSources
    /\ web # NoFeeds
    /\ final = <<>>

---------------------------------------------------------------------------
(* The filter pass on one article: a run that has fetched a single entry   *)

FilterTitles ==
    {"Acme raises seed round",
     "Swedish startup Acme raises seed round",
     "Swedish startup Acme opens office",
     "Acme opens office",
     "Top 10 startups in Sweden raise funding",
     "Sweden's top 10 startups share funding tips",
     "Lovable triples its valuation",
     "Swedish Lovable triples its valuation",
     "Swedish Lovable triples valuation after round",
     "Oslo-based Fjord raises seed round",
     "Stockholm dentist chain raises funding",
     "Blund raises seed"}

FilterSummaries ==
    {"", "Stockholm", "The seed funding was announced today.",
     "Swedish venture capital", "A dental clinic in Oslo", "Norwegian startup"}

FilterDates == {NoDate, <<NOW>>, <<NOW - 90>>, <<NOW - 91>>, <<0, 0>>}

\* the run has attempted every source, and the feeds served are web
Fetched(feeds) ==
    /\ web = feeds
    /\ src = Len(Sources)
    /\ attempts = [id \in DOMAIN NoFeeds |-> 1]
    /\ failed = {}
    /\ raw = fetch_rss(RSS_SOURCES[1], feeds[RSS_SOURCES[1]], FALSE).articles
             \o fetch_google_news(GOOGLE_NEWS_QUERIES[1],
                                  feeds[GOOGLE_NEWS_QUERIES[1]], FALSE).articles
    /\ SWEDEN_KEYWORDS = SwedenKeywords
    /\ FUNDING_KEYWORDS = FundingKeywords
    /\ EXCLUDE_CONTENT_KEYWORDS = ExcludeContentKeywords
    /\ title = ""
    /\ company = ""
    /\ key = ""

InitFilter ==
    /\ pc = "filter"
    /\ \E t \in FilterTitles, summary \in FilterSummaries, published \in FilterDates :
          Fetched(Feeds(<<Entry(t, summary, published, "")>>, <<>>, <<>>, <<>>))
    /\ filtered = <<>>
    /\ clustered = <<>>
    /\ final = <<>>

SpecFilter == InitFilter /\ [][Filter]_vars

TextOf(a) == lower(a.title \o " " \o a.summary)

HomeRegion(a) == ContainsAny(TextOf(a), SWEDEN_KEYWORDS)
FundingSignal(a) == ContainsAny(TextOf(a), FUNDING_KEYWORDS)
Excluded(a) == ContainsAny(TextOf(a), EXCLUDE_CONTENT_KEYWORDS)
ForeignRegion(a) == ContainsAny(TextOf(a), NorwayMarkers)

\* C1: an article is kept by the filter pass exactly when every stage lets it
\* through: its age is at most 90 days, it has a home-region marker and a
\* funding keyword, no exclusion keyword, no bad-title pattern, and it is not
\* foreign-region without home-region; it is dropped otherwise.
C1_FilterIsTheConjunction ==
    (pc = "extract" /\ Len(raw) = 1) =>
        LET a == raw[1]
            every == /\ AgeOf(a) <= 90
                     /\ HomeRegion(a)
                     /\ FundingSignal(a)
                     /\ ~Excluded(a)
                     /\ ~is_bad_title(a.title)
                     /\ ~(ForeignRegion(a) /\ ~HomeRegion(a))
        IN  /\ every => filtered = <<a>>
            /\ ~every => filtered = <<>>

\* an article that only the bad-title stage stops
C1_Witness ==
    /\ pc = "extract"
    /\ Len(raw) = 1
    /\ filtered = <<>>
    /\ AgeOf(raw[1]) <= 90 /\ HomeRegion(raw[1]) /\ FundingSignal(raw[1])
    /\ ~Excluded(raw[1]) /\ ~ForeignRegion(raw[1])
    /\ is_bad_title(raw[1].title)

\* C7: an article whose title says "triples its valuation" or "top 10 startups"
\* is dropped by the filter pass, whatever else it contains.
C7_ValuationAndListicleTitlesRejected ==
    (pc = "extract" /\ Len(raw) = 1) =>
        LET tl == lower(raw[1].title)
        IN  (Contains(tl, "triples its valuation") \/ Contains(tl, "top 10 startups"))
               => filtered = <<>>

\* C13: the foreign-region veto of passes_filters never decides: an article that
\* reaches it has passed the home-region stage, so is_norway_only is false for
\* it, and the filter pass keeps exactly the articles that the stages before
\* the veto let through.
C13_VetoNeverDecides ==
    (pc = "extract" /\ Len(raw) = 1) =>
        LET a == raw[1]
            reachesVeto == /\ AgeOf(a) <= MAX_AGE_DAYS
                           /\ HomeRegion(a)
                           /\ FundingSignal(a)
                           /\ ~Excluded(a)
                           /\ ~is_bad_title(a.title)
        IN  /\ reachesVeto => ~is_norway_only(a) /\ filtered = <<a>>
            /\ ~reachesVeto => filtered = <<>>

\* an article with a foreign-region marker reached the veto and was kept
C13_Witness ==
    /\ pc = "extract"
    /\ Len(raw) = 1
    /\ ForeignRegion(raw[1])
    /\ Contains(lower(raw[1].title), "oslo-based")
    /\ filtered = raw

---------------------------------------------------------------------------
(* extract_company_name and normalize_for_cluster on one title             *)

NamePrefixes ==
    {"", "Swedish ", "Sweden@s ", "ai swedish ", "Stockholm-based fintech startup ",
     "'", "Nordic AI-native "}

NameSubjects ==
    {"Acme", "X", "Flox@s AI", "pet InsurTech Lassie", "Acme's", "Swedish Acme'"}

NameTails == {"", " raises ~5M", " secures seed", " emerges from stealth with $2M"}

NameTitles == {a \o b \o c : a \in NamePrefixes, b \in NameSubjects, c \in NameTails}

InitName ==
    /\ pc = "name"
    /\ title \in NameTitles
    /\ company = ""
    /\ key = ""
    /\ web = NoFeeds
    /\ src = 0
    /\ attempts = [id \in DOMAIN NoFeeds |-> 0]
    /\ failed = {}
    /\ raw = <<>>
    /\ filtered = <<>>
    /\ clustered = <<>>
    /\ final = <<>>
    /\ SWEDEN_KEYWORDS = SwedenKeywords
    /\ FUNDING_KEYWORDS = FundingKeywords
    /\ EXCLUDE_CONTENT_KEYWORDS = ExcludeContentKeywords

run == <<web, src, attempts, failed, raw, filtered, clustered, final, config>>

\* company = extract_company_name(title)
ExtractName ==
    /\ pc = "name"
    /\ company' = extract_company_name(title)
    /\ pc' = "named"
    /\ UNCHANGED <<title, key, run>>

\* key = normalize_for_cluster(company)
NormalizeKey ==
    /\ pc = "named"
    /\ key' = normalize_for_cluster(company)
    /\ pc' = "keyed"
    /\ UNCHANGED <<title, company, run>>

\* key = normalize_for_cluster(key)
NormalizeAgain ==
    /\ pc = "keyed"
    /\ key' = normalize_for_cluster(key)
    /\ pc' = "rekeyed"
    /\ UNCHANGED <<title, company, run>>

NextName ==
    \/ ExtractName
    \/ NormalizeKey
    \/ NormalizeAgain

SpecName == InitName /\ [][NextName]_vars

\* C4: normalising a cluster key once more leaves it as it is.
C4_NormalizeIsIdempotent ==
    pc = "rekeyed" => key = normalize_for_cluster(company)

HasFundingVerb(t) == Search(_FUNDING_VERB_RE, lower(_normalise_apostrophes(t)))

\* C5: for a title with a funding verb the extracted name is not empty and is
\* strictly shorter than the title.
C5_NameShorterThanTitle ==
    (pc # "name" /\ HasFundingVerb(title)) =>
        /\ company # ""
        /\ Len(company) < Len(title)

---------------------------------------------------------------------------
(* The descriptor stripping of extract_company_name on one title           *)

\* extract_company_name(title) entered; company will hold its candidate
InitStrip ==
    /\ pc = "title"
    /\ title \in NameTitles
    /\ company = ""
    /\ key = ""
    /\ web = NoFeeds
    /\ src = 0
    /\ attempts = [id \in DOMAIN NoFeeds |-> 0]
    /\ failed = {}
    /\ raw = <<>>
    /\ filtered = <<>>
    /\ clustered = <<>>
    /\ final = <<>>
    /\ SWEDEN_KEYWORDS = SwedenKeywords
    /\ FUNDING_KEYWORDS = FundingKeywords
    /\ EXCLUDE_CONTENT_KEYWORDS = ExcludeContentKeywords

\* lines 365-368
CutCandidate ==
    /\ pc = "title"
    /\ company' = CandidateOf(title)
    /\ pc' = "candidate"
    /\ UNCHANGED <<title, key, run>>

\* lines 370-371
StripCandidate ==
    /\ pc = "candidate"
    /\ company' = StripDescriptors(company)
    /\ pc' = "stripped"
    /\ UNCHANGED <<title, key, run>>

\* lines 370-371 once more, on the stripped candidate; key holds the result
StripAgain ==
    /\ pc = "stripped"
    /\ key' = StripDescriptors(company)
    /\ pc' = "restripped"
    /\ UNCHANGED <<title, company, run>>

NextStrip ==
    \/ CutCandidate
    \/ StripCandidate
    \/ StripAgain

SpecStrip == InitStrip /\ [][NextStrip]_vars

\* C12: the descriptor stripping of extract_company_name reaches a fixed point:
\* the candidate it leaves begins with nothing the stripping rules remove, so
\* stripping it once more changes nothing.
C12_StrippingReachesFixedPoint ==
    pc = "restripped" => key = company

---------------------------------------------------------------------------
(* The funding facts of one filtered article                               *)

FundingTitles ==
    {"Swedish Acme raises ~5M",
     "Swedish Acme raises ~5 million",
     "Swedish Acme raises ~ 7.5 Mn in seed round",
     "Swedish Acme raises $2,5bn Series B",
     "Swedish Acme raises #300k",
     "Swedish Acme raises ~2.5K",
     "Swedish Acme raises ~500",
     "Swedish Acme raises $40 for charity",
     "Swedish Acme raises $ 1000000",
     "Swedish Acme raises 5 million euros",
     "Swedish Acme raises 12.5m",
     "Swedish Acme raises 3 bn SEK in IPO",
     "Swedish Acme raises 900K",
     "Swedish Acme raises 5mn",
     "Swedish Acme raises seed round"}

FundingSummaries ==
    {"", "A Series A of ~7.5M.", "In total 10 billion kr.", "Valued at $900 a share.",
     "The pre-seed round closed."}

\* main() after line 577, one article having passed the filter
InitFunding ==
    /\ pc = "extract"
    /\ \E t \in FundingTitles, summary \in FundingSummaries :
          Fetched(Feeds(<<Entry(t, summary, <<NOW - 1>>, "")>>, <<>>, <<>>, <<>>))
    /\ filtered = SelectSeq(raw, passes_filters)
    /\ clustered = <<>>
    /\ final = <<>>

SpecFunding == InitFunding /\ [][Extract]_vars

\* digits, or digits "." digits
IsNumeral(n) ==
    LET dots == {i \in 1..Len(n) : SubSeq(n, i, i) = "."}
    IN  /\ n # ""
        /\ \A i \in 1..Len(n) : i \notin dots => IsDigit(SubSeq(n, i, i))
        /\ \/ dots = {}
           \/ \E i \in 2..(Len(n) - 1) : dots = {i}

\* currency symbol + numeral + one magnitude letter
IsCanonicalAmount(a) ==
    /\ Len(a) >= 3
    /\ SubSeq(a, 1, 1) \in CurrencySigns
    /\ SubSeq(a, Len(a), Len(a)) \in {"K", "M", "B"}
    /\ IsNumeral(SubSeq(a, 2, Len(a) - 1))

\* C11: an amount that extract_funding_info returns is either absent or in the
\* canonical form: a currency symbol, a numeral and exactly one magnitude
\* letter of K, M, B, whether the match is symbol-first (with or without a
\* magnitude word) or number-first.
C11_AmountIsCanonical ==
    pc = "cluster" =>
        \A i \in Indices(filtered) :
            filtered[i].amount # "" => IsCanonicalAmount(filtered[i].amount)

---------------------------------------------------------------------------
(* Extraction and clustering of short lists of filtered articles           *)

MaxRecords == 3

Record(t, source) == Entry(t, "Stockholm funding", <<NOW - 1>>, source)

RecordPool ==
    {Record("Acme raises seed", ""),
     Record("Acme raises seed", "Sifted"),
     Record("Acme raises seed", "EU-Startups"),
     Record("Swedish startup Acme secures funding", "Sifted"),
     Record("Bolt raises seed", ""),
     Record("Bolt raises seed", "EU-Startups")}

RecordLists == UNION {[1..n -> RecordPool] : n \in 0..MaxRecords}

TwinTitles ==
    {a \o b \o c : a \in {"", "Sweden@s ", "Swedish "},
                   b \in {"Flox@s", "Flox@s AI", "Q", "O@Neill", "Acme@"},
                   c \in {" raises seed", " raises on founder@s day",
                          " opens Flox@s office"}}

\* t with every U+2019 written as an ASCII apostrophe
Ascii(t) == MapChars([c \in {RSQUO} |-> "'"], t, 1)

TwinLists ==
    {<<Entry(t, "Stockholm funding", <<NOW - 1>>, ""),
       Entry(Ascii(t), "Stockholm funding", <<NOW - 2>>, "Sifted")>> : t \in TwinTitles}

\* main() after line 577, the first query having served the entries
InitRecords ==
    /\ pc = "extract"
    /\ \E es \in RecordLists \cup TwinLists : Fetched(Feeds(<<>>, <<>>, es, <<>>))
    /\ filtered = SelectSeq(raw, passes_filters)
    /\ clustered = <<>>
    /\ final = <<>>

NextRecords ==
    \/ Extract
    \/ Cluster

SpecRecords == InitRecords /\ [][NextRecords]_vars

\* the records of filtered in the cluster of key k, in input order
Members(k) == SelectSeq([i \in Indices(filtered) |-> i], LAMBDA i : KeyOf(filtered[i]) = k)

IsLowestRank(i, members) ==
    \A m \in Indices(members) :
        SOURCE_PRIORITY(filtered[i].source) <= SOURCE_PRIORITY(filtered[members[m]].source)

SameArticle(c, a) ==
    /\ c.title = a.title
    /\ c.summary = a.summary
    /\ c.published = a.published
    /\ c.source = a.source
    /\ c.company = a.company

\* C2: clustering returns one canonical record per distinct cluster key; it is
\* the first, in input order, of the members of its group whose source has the
\* lowest rank (an unlisted source ranks after every listed one), and its
\* coverage is the size of the group.
C2_OneCanonicalPerKey ==
    pc \in AfterCluster =>
        /\ {KeyOf(clustered[k]) : k \in Indices(clustered)}
              = {KeyOf(filtered[i]) : i \in Indices(filtered)}
        /\ \A j, k \in Indices(clustered) :
              KeyOf(clustered[j]) = KeyOf(clustered[k]) => j = k
        /\ \A k \in Indices(clustered) :
              LET members == Members(KeyOf(clustered[k]))
                  lowest == SelectSeq(members, LAMBDA i : IsLowestRank(i, members))
              IN  /\ SameArticle(clustered[k], filtered[lowest[1]])
                  /\ clustered[k].coverage = Len(members)
        /\ \A so \in {"EU-Startups", "ArcticStartup", "Silicon Canals", "Sifted",
                      "Tech.eu", "TechCrunch"} :
              SOURCE_PRIORITY(so) < SOURCE_PRIORITY("Google News")

\* a group of three whose canonical record is not its first member, and a tie
C2_Witness ==
    /\ pc = "rank"
    /\ \E k \in Indices(clustered) :
          LET members == Members(KeyOf(clustered[k]))
          IN  /\ Len(members) = 3
              /\ ~SameArticle(clustered[k], filtered[members[1]])
              /\ SameArticle(clustered[k], filtered[members[2]])
              /\ filtered[members[3]].source = clustered[k].source

\* the same title but for the apostrophes: U+2019 in one where the other has '
Twins(t, u) ==
    /\ t # u
    /\ Len(t) = Len(u)
    /\ \A i \in 1..Len(t) :
          \/ SubSeq(t, i, i) = SubSeq(u, i, i)
          \/ SubSeq(t, i, i) = RSQUO /\ SubSeq(u, i, i) = "'"

\* C6: two records whose titles differ only in U+2019 against the ASCII
\* apostrophe get the same cluster key, and clustering puts them in one group:
\* one canonical record has that key and its coverage counts both.
C6_ApostropheTwinsCluster ==
    \A i, j \in Indices(filtered) :
        Twins(filtered[i].title, filtered[j].title) =>
            /\ pc \in AfterExtract => KeyOf(filtered[i]) = KeyOf(filtered[j])
            /\ pc \in AfterCluster =>
                  \E k \in Indices(clustered) :
                      /\ KeyOf(clustered[k]) = KeyOf(filtered[i])
                      /\ KeyOf(clustered[k]) = KeyOf(filtered[j])
                      /\ clustered[k].coverage >= 2

\* twins on the fallback path: the name is a prefix of the raw title
C6_Witness ==
    /\ pc = "rank"
    /\ Len(filtered) = 2
    /\ Twins(filtered[1].title, filtered[2].title)
    /\ filtered[1].company = SeqPrefix(filtered[1].title, 40)
    /\ Contains(filtered[1].company, RSQUO)
    /\ Len(clustered) = 1

---------------------------------------------------------------------------
(* The filter pass under edited vocabularies, the articles held fixed      *)

Fresh(t) == Entry(t, "", <<NOW - 1>>, "")

VocabCorpora ==
    {<<Fresh("Acme raises seed in Stockholm"),
       Fresh("Swedish Bolt secures funding amid layoffs"),
       Fresh("Core closes round in Stockholm after relaunch"),
       Fresh("Oslo and Stockholm fund nets seed")>>,
     <<Fresh("Swedish Dune lands seed"),
       Fresh("Stockholm dentist chain raises round"),
       Fresh("Malmo startup Elk raises seed amid relaunch")>>,
     <<Fresh("Oslo fund raises capital"),
       Fresh("Swedish Stockholm Fax raises seed")>>}

ExtraExclusions == {"amid", "relaunch"}
RemovableHome == {"stockholm", "swedish"}
RemovableFunding == {"raises", "seed"}

\* main() after line 577
InitVocab ==
    /\ pc = "extract"
    /\ \E corpus \in VocabCorpora : Fetched(Feeds(corpus, <<>>, <<>>, <<>>))
    /\ filtered = SelectSeq(raw, passes_filters)
    /\ clustered = <<>>
    /\ final = <<>>

\* lines 55-60 with one more keyword; the filter pass is then due again
AddExclusion(k) ==
    /\ pc = "extract"
    /\ k \notin EXCLUDE_CONTENT_KEYWORDS
    /\ EXCLUDE_CONTENT_KEYWORDS' = EXCLUDE_CONTENT_KEYWORDS \cup {k}
    /\ pc' = "filter"
    /\ UNCHANGED <<web, src, attempts, failed, raw, filtered, clustered, final,
                   SWEDEN_KEYWORDS, FUNDING_KEYWORDS, unit>>

\* lines 49-53 with one keyword fewer
RemoveHome(k) ==
    /\ pc = "extract"
    /\ k \in SWEDEN_KEYWORDS
    /\ SWEDEN_KEYWORDS' = SWEDEN_KEYWORDS \ {k}
    /\ pc' = "filter"
    /\ UNCHANGED <<web, src, attempts, failed, raw, filtered, clustered, final,
                   FUNDING_KEYWORDS, EXCLUDE_CONTENT_KEYWORDS, unit>>

\* lines 41-47 with one keyword fewer
RemoveFunding(k) ==
    /\ pc = "extract"
    /\ k \in FUNDING_KEYWORDS
    /\ FUNDING_KEYWORDS' = FUNDING_KEYWORDS \ {k}
    /\ pc' = "filter"
    /\ UNCHANGED <<web, src, attempts, failed, raw, filtered, clustered, final,
                   SWEDEN_KEYWORDS, EXCLUDE_CONTENT_KEYWORDS, unit>>

\* an edit of one list, then line 577 on the same articles
NextVocab ==
    \/ \E k \in ExtraExclusions : AddExclusion(k)
    \/ \E k \in RemovableHome : RemoveHome(k)
    \/ \E k \in RemovableFunding : RemoveFunding(k)
    \/ Filter

SpecVocab == InitVocab /\ [][NextVocab]_vars

\* a filter pass of SpecVocab: filtered holds the articles that passed before
\* the edit, filtered' those that pass after it
Refiltered == pc = "filter" /\ pc' = "extract"

\* every edit so far has added to the exclusion vocabulary
OnlyExclusionsAdded ==
    SWEDEN_KEYWORDS = SwedenKeywords /\ FUNDING_KEYWORDS = FundingKeywords

\* every edit so far has removed from a required vocabulary
OnlyRequiredRemoved == EXCLUDE_CONTENT_KEYWORDS = ExcludeContentKeywords

\* C8 as stated: for a fixed list of articles, a keyword added to the exclusion
\* vocabulary cannot increase the number of articles that pass the filter, and
\* a keyword removed from a required vocabulary (home-region markers, funding
\* keywords) cannot decrease it.
C8_MonotonicAsStated ==
    [][Refiltered =>
          /\ OnlyExclusionsAdded => Len(filtered') <= Len(filtered)
          /\ OnlyRequiredRemoved => Len(filtered') >= Len(filtered)]_vars

\* C8, amended: for a fixed list of articles, neither a keyword added to the
\* exclusion vocabulary nor a keyword removed from a required vocabulary can
\* increase the number of articles that pass the filter.
C8_VocabulariesOnlyNarrow ==
    [][Refiltered => Len(filtered') <= Len(filtered)]_vars

Titles(articles) == {articles[i].title : i \in Indices(articles)}

\* "stockholm" alone has been removed and an article that passed no longer does,
\* while an article excluded for "amid" alone is excluded
C8_Witness ==
    /\ pc = "extract"
    /\ SWEDEN_KEYWORDS = SwedenKeywords \ {"stockholm"}
    /\ FUNDING_KEYWORDS = FundingKeywords
    /\ EXCLUDE_CONTENT_KEYWORDS = ExcludeContentKeywords \cup {"amid"}
    /\ "Acme raises seed in Stockholm" \in Titles(raw) \ Titles(filtered)
    /\ "Swedish Bolt secures funding amid layoffs" \in Titles(raw) \ Titles(filtered)
    /\ filtered = <<>>

=============================================================================
